---- MODULE Spec2Model ----
(***************************************************************************)
(* plex-match-maker: the scan-and-reconcile core.                          *)
(*                                                                         *)
(* scheduler.py  scan_libraries, init_scheduler                            *)
(* routes.py     manual_scan, edit_config, delete_config                   *)
(* config.py     TZ                                                        *)
(* plex_client.py PlexClient.connect, get_recent_media, match_with_agent,  *)
(*               is_guid_matched                                           *)
(* models.py     LibraryConfig, MediaItem, ScanLog                         *)
(*                                                                         *)
(* Every run of scan_libraries owns one SQLAlchemy session (db.session is  *)
(* scoped to the app context that line 14 of scheduler.py pushes).  Rows   *)
(* handed to db.session.add stay private to that session until its         *)
(* db.session.commit; the unique constraint of media_items is enforced     *)
(* when the session flushes (before a query, or inside commit).  A flush   *)
(* that fails leaves the session unusable until db.session.rollback(),     *)
(* which scan_libraries never calls.                                       *)
(*                                                                         *)
(* Spec          the scans of the processes: startup, cron and manual      *)
(* SpecConfig    scheduled scans while configs are deleted                 *)
(* SpecReconcile one match_with_agent call, request by request             *)
(* SpecRecent    one get_recent_media call                                 *)
(* SpecClassify  is_guid_matched                                           *)
(* SpecEdit      scheduled scans while configs are enabled and disabled    *)
(* SpecConnect   one connect call                                          *)
(***************************************************************************)
EXTENDS Integers, Sequences, FiniteSets, TLC

\* ------------------------------------------------------------------ bounds
MaxScans == 3          \* ScanLog rows (runs of scan_libraries) per behaviour
NumLibs == 2           \* remote libraries that have a LibraryConfig
MaxItems == 2          \* recent items of remote library 1 (the others hold one)
MaxFaults == 1         \* requests of connect and get_recent_media that fail

ScanIds == 1..MaxScans
Libs == 1..NumLibs

\* ------------------------------------------------------------------ values
\* An optional value: <<>> is Python's None, <<v>> is the value v.
None == <<>>
Some(v) == <<v>>

\* Strings that the program inspects are sequences of characters.
PLEX_PREFIX == <<"p", "l", "e", "x", ":", "/", "/">>
LOCAL_PREFIX == <<"l", "o", "c", "a", "l", ":", "/", "/">>

\* str.startswith
startswith(s, p) == Len(s) >= Len(p) /\ SubSeq(s, 1, Len(p)) = p

\* plex_client.py:190-197.  media_guid is None, or Some(string).
is_guid_matched_no_local(media_guid) ==
    IF media_guid = None \/ media_guid[1] = <<>> THEN FALSE
    ELSE IF startswith(media_guid[1], PLEX_PREFIX) THEN FALSE
    ELSE TRUE

is_guid_matched(media_guid) ==
    IF media_guid = None \/ media_guid[1] = <<>> THEN FALSE
    ELSE IF startswith(media_guid[1], PLEX_PREFIX)
            \/ startswith(media_guid[1], LOCAL_PREFIX) THEN FALSE
    ELSE TRUE

\* --------------------------------------------------------- the remote server
\* Outcome of one HTTP exchange: a 2xx answer, a 404, another HTTP error
\* status, or a transport failure (timeout, refused connection).
Statuses == {"ok", "404", "500", "conn"}

\* Identifiers ("guid" attributes) the remote may report for an item; None is
\* a lookup answer that holds no element with the item's key.
GUID_INTERNAL == Some(PLEX_PREFIX \o <<"i">>)
GUID_LOCAL == Some(LOCAL_PREFIX \o <<"x">>)
GUID_IMDB == Some(<<"i", "m", "d", "b", ":", "/", "/", "t", "t", "1">>)
GUID_EMPTY == Some(<<>>)
ItemGuids == {None, GUID_EMPTY, GUID_INTERNAL, GUID_LOCAL, GUID_IMDB}

\* Candidate lists of <key>/matches: SearchResult elements in remote order.
CAND_FOO == [guid |-> Some(<<"t", "m", "d", "b", ":", "/", "/", "9">>), name |-> "Foo"]
CAND_BAR == [guid |-> Some(<<"t", "m", "d", "b", ":", "/", "/", "7">>), name |-> "Bar"]
CAND_NOGUID == [guid |-> None, name |-> "Anon"]
CAND_EMPTYGUID == [guid |-> Some(<<>>), name |-> "Blank"]
CandidateLists ==
    {<<>>, <<CAND_FOO>>, <<CAND_FOO, CAND_BAR>>, <<CAND_NOGUID, CAND_FOO>>,
     <<CAND_EMPTYGUID, CAND_BAR>>}

\* What the remote answers to the requests of one match_with_agent call.
RemoteResponses ==
    [lookup : Statuses, guid : ItemGuids, refresh : Statuses,
     matches : Statuses, cands : CandidateLists, apply : Statuses]

Result(success, message, commands) ==
    [success |-> success, message |-> message, commands |-> commands]

\* plex_client.py:251-261: the handlers of the outer try.
OuterHandler(status, commands) ==
    IF status = "404" THEN Result(FALSE, <<"not found">>, commands)
    ELSE IF status = "500" THEN Result(FALSE, <<"HTTP error">>, commands)
    ELSE Result(FALSE, <<"Failed to process">>, commands)

\* plex_client.py:243-249: the handler of the inner try; anything that is
\* not an HTTPError goes on to the outer handlers.
InnerHandler(status, commands) ==
    IF status = "404" THEN Result(TRUE, <<"No matches available">>, commands)
    ELSE IF status = "500" THEN Result(FALSE, <<"Error getting matches">>, commands)
    ELSE OuterHandler(status, commands)

\* plex_client.py:224: matches[0]
last_match(matches) == matches[Len(matches)]

first_match(matches) == matches[1]

\* plex_client.py:228: "if match_guid:" takes an absent and an empty guid
\* attribute alike.
has_guid_not_none(match_guid) == match_guid # None

has_guid(match_guid) == match_guid # None /\ match_guid[1] # <<>>

\* plex_client.py:202: the branch taken on is_matched.
branch_inverted(matched) == IF matched THEN "matches" ELSE "refresh"

branch(matched) == IF matched THEN "refresh" ELSE "matches"

\* plex_client.py:171-261, for a client that is connected (server_info set).
match_with_agent(r) ==
    IF r.lookup # "ok" THEN OuterHandler(r.lookup, <<>>)
    ELSE IF branch(is_guid_matched(r.guid)) = "refresh"
    THEN IF r.refresh = "ok"
         THEN Result(TRUE, <<"Refreshed matched media">>, <<<<"refresh">>>>)
         ELSE OuterHandler(r.refresh, <<<<"refresh">>>>)
    ELSE IF r.matches # "ok" THEN InnerHandler(r.matches, <<>>)
    ELSE IF r.cands = <<>> THEN Result(TRUE, <<"No matches available">>, <<>>)
    ELSE IF ~has_guid(first_match(r.cands).guid)
    THEN Result(TRUE, <<"Match found but no guid available">>, <<>>)
    ELSE IF r.apply = "ok"
         THEN Result(TRUE, <<"Matched", first_match(r.cands).name>>,
                     <<<<"match", first_match(r.cands).guid>>>>)
         ELSE InnerHandler(r.apply, <<<<"match", first_match(r.cands).guid>>>>)

\* The answers the remote gives during a scan: an internal identifier with
\* one candidate, applied; an external identifier, refreshed; no candidate;
\* and an item that is gone (404 on lookup).
ANSWER_CANDIDATE ==
    [lookup |-> "ok", guid |-> GUID_INTERNAL, refresh |-> "ok",
     matches |-> "ok", cands |-> <<CAND_FOO, CAND_BAR>>, apply |-> "ok"]
ANSWER_MATCHED == [ANSWER_CANDIDATE EXCEPT !.guid = GUID_IMDB]
ANSWER_NO_CANDIDATE == [ANSWER_CANDIDATE EXCEPT !.cands = <<>>]
ANSWER_GONE == [ANSWER_CANDIDATE EXCEPT !.lookup = "404"]

\* The remote's state is fixed: what it answers for an item depends on the
\* item alone.
RemoteAnswer(key) ==
    IF key[2] % 4 = 1 THEN ANSWER_CANDIDATE
    ELSE IF key[2] % 4 = 2 THEN ANSWER_GONE
    ELSE IF key[2] % 4 = 3 THEN ANSWER_MATCHED
    ELSE ANSWER_NO_CANDIDATE

\* Recent items of a remote library, newest first: keys <<library, n>>.
RemoteItems(library_key) ==
    [n \in 1..(IF library_key = 1 THEN MaxItems ELSE 1) |-> <<library_key, n>>]

\* plex_client.py:103-168: every failure is caught inside and yields [].
get_recent_media(library_key, status) ==
    IF status = "ok" THEN RemoteItems(library_key) ELSE <<>>

\* ------------------------------------------------------------------- state
VARIABLES
    plex_token,       \* PLEX_TOKEN is set (plex_client.py:15)
    library_configs,  \* table library_configs (committed)
    media_items,      \* table media_items (committed): the ledger
    scan_logs,        \* table scan_logs (committed), indexed by ScanLog.id
    now,              \* the clock read by datetime.now
    run,              \* the runs of scan_libraries, by the id of their ScanLog
    startup,          \* the id of the startup scan of the running process, or 0
    faults,           \* failed requests of connect and get_recent_media so far
    media_guid,       \* match_with_agent: the identifier of the looked-up item
    is_matched,       \* match_with_agent: what is_guid_matched returned, or None
    args,             \* match_with_agent: the config and the media key it is given
    remote,           \* match_with_agent: what the remote answers to its requests
    mpc,              \* match_with_agent: where the call stands
    requests,         \* match_with_agent: the requests it has sent, in order
    result,           \* match_with_agent: None, or Some of what it returned
    media_item,       \* scheduler.py:59-82: None, or Some of the row handed to the session
    listing,          \* get_recent_media: the elements of the library's listing
    clock,            \* get_recent_media: datetime.now, in ticks
    recent,           \* get_recent_media: None, or Some of what it returned
    environ,          \* connect: the TZ variable of the environment, or None
    server,           \* connect: what the remote answers to its requests
    connected,        \* connect: None, or Some of what it returned
    server_timezone   \* connect: PlexClient.server_timezone (plex_client.py:17)

\* The state of one match_with_agent call, of one get_recent_media call and
\* of one connect call.
matchVars == <<media_guid, is_matched, args, remote, mpc, requests, result, media_item>>
recentVars == <<listing, clock, recent>>
connectVars == <<environ, server, connected, server_timezone>>

vars == <<plex_token, library_configs, media_items, scan_logs, now, run,
          startup, faults, matchVars, recentVars, connectVars>>

\* models.py:5-19.  The config of library n has id n and library_key n.
LibraryConfig(n, enabled) ==
    [id |-> n, library_key |-> n,
     agent_name |-> IF n % 2 = 1 THEN "TheMovieDB" ELSE "TheTVDB",
     enabled |-> enabled]

\* models.py:38-50: a new ScanLog row, with the column defaults.
ScanLog(started) ==
    [scan_started_at |-> started, scan_completed_at |-> None,
     total_libraries |-> 0, total_media_found |-> 0, total_matched |-> 0,
     total_errors |-> 0, status |-> "running", error_message |-> None]

\* models.py:21-34 as filled by scheduler.py:59-77.  id stands for the
\* primary key: the run that made the row and the row's rank in that run.
MediaItem(id, config, key, ret) ==
    [id |-> id, library_config_id |-> config.id, plex_key |-> key,
     agent_matched |-> config.agent_name, match_successful |-> ret.success,
     error_message |-> IF ret.success THEN None ELSE Some(ret.message)]

\* The locals of one run of scan_libraries and its session.
\*   trigger: what started the run, while it runs.
\*   killed: the process was killed while the run was active.
\*   server_info: PlexClient.server_info is set (plex_client.py:40).
\*   pending, session_ok: the rows given to db.session.add and not yet
\*     committed; whether the session can still flush and commit.
\*   called, fetched: history of the run's remote calls (not program state):
\*     the (config, item) pairs given to match_with_agent, and per config of
\*     the loop whether get_recent_media got the library's items.
IdleRun ==
    [pc |-> "idle", trigger |-> "none", killed |-> FALSE, server_info |-> FALSE,
     configs |-> <<>>, lib |-> 0,
     recent_media |-> <<>>, total_media_found |-> 0, total_matched |-> 0,
     total_errors |-> 0, pending |-> {}, session_ok |-> TRUE,
     called |-> {}, fetched |-> <<>>]

Active(s) == run[s].pc \notin {"idle", "done", "raised"} /\ ~run[s].killed

At(s, pc) == run[s].pc = pc /\ ~run[s].killed

\* models.py:36: UniqueConstraint('library_config_id', 'plex_key') over the
\* committed rows together with the rows a session flushes.
Pair(row) == <<row.library_config_id, row.plex_key>>

UniqueUnchecked(committed, flushed) == TRUE

UniqueConstraint(committed, flushed) ==
    \A a \in flushed : \A b \in committed : Pair(a) # Pair(b)

\* scheduler.py:49-52: MediaItem.query.filter_by(...).first(), which sees the
\* committed rows and the session's own rows.
ExistingOwnOnly(s, config_id, key) ==
    \E row \in run[s].pending : Pair(row) = <<config_id, key>>

ExistingSuccessful(s, config_id, key) ==
    \E row \in media_items \cup run[s].pending :
        Pair(row) = <<config_id, key>> /\ row.match_successful

Existing(s, config_id, key) ==
    \E row \in media_items \cup run[s].pending : Pair(row) = <<config_id, key>>

\* models.py:26: ForeignKey('library_configs.id') over the rows a session
\* flushes.  Whether the database enforces it is decided outside these
\* source files (SQLite does not unless it is told to), so a flush of a row
\* whose config is gone may raise IntegrityError or may insert the row.
ForeignKey(configs, flushed) ==
    \A a \in flushed : \E c \in configs : c.id = a.library_config_id

\* A flush of the session's rows goes through.
Flushes(flushed, enforced) ==
    /\ UniqueConstraint(media_items, flushed)
    /\ enforced => ForeignKey(library_configs, flushed)

\* The ways a flush of these rows can be judged: the choice matters only
\* when a row's config is gone.
Enforcements(flushed) ==
    IF ForeignKey(library_configs, flushed) THEN {TRUE} ELSE BOOLEAN

RECURSIVE Ascending(_)
Ascending(S) ==
    IF S = {} THEN <<>>
    ELSE LET m == CHOOSE x \in S : \A y \in S : x <= y
         IN <<m>> \o Ascending(S \ {m})

\* LibraryConfig.query.get(id)
ConfigOf(id) == CHOOSE c \in library_configs : c.id = id

\* LibraryConfig.query.all(), in id order.
AllConfigs ==
    LET ids == Ascending({c.id : c \in library_configs})
    IN [i \in DOMAIN ids |-> ConfigOf(ids[i])]

\* scheduler.py:31: the enabled configs as loaded into the session, in id
\* order; the run goes on with these objects whatever happens to their rows.
EnabledConfigs ==
    LET ids == Ascending({c.id : c \in {d \in library_configs : d.enabled}})
    IN [i \in DOMAIN ids |-> ConfigOf(ids[i])]

\* No call of connect is followed step by step.
NoConnect ==
    /\ environ = None
    /\ server = None
    /\ connected = None
    /\ server_timezone = None

\* No call of match_with_agent or get_recent_media is followed step by step.
NoCall ==
    /\ args = None
    /\ remote = None
    /\ mpc = "idle"
    /\ requests = <<>>
    /\ result = None
    /\ media_item = None
    /\ listing = <<>>
    /\ clock = 0
    /\ recent = None
    /\ NoConnect

Init ==
    /\ plex_token \in BOOLEAN
    /\ library_configs \in {{LibraryConfig(n, e[n]) : n \in Libs} : e \in [Libs -> BOOLEAN]}
    /\ media_items = {}
    /\ scan_logs = <<>>
    /\ now = 1
    /\ run = [s \in ScanIds |-> IdleRun]
    /\ startup = 0
    /\ faults = 0
    /\ media_guid = None
    /\ is_matched = None
    /\ NoCall

\* scheduler.py:12-19: a run starts; its ScanLog is added and committed.
Begin(s, trigger) ==
    /\ s = Len(scan_logs) + 1
    /\ s \in ScanIds
    /\ scan_logs' = Append(scan_logs, ScanLog(now))
    /\ now' = now + 1
    /\ run' = [run EXCEPT ![s] = [IdleRun EXCEPT !.pc = "connect", !.trigger = trigger]]
    /\ UNCHANGED <<plex_token, library_configs, media_items, faults, matchVars, recentVars, connectVars>>

\* scheduler.py:123-125: init_scheduler runs the first scan of a process
\* itself, before the scheduler starts and before the application serves a
\* request.
StartupScan ==
    /\ startup = 0
    /\ Begin(Len(scan_logs) + 1, "startup")
    /\ startup' = Len(scan_logs) + 1

\* scheduler.py:126-128: the startup scan has returned.
Started == startup # 0 /\ ~Active(startup)

\* scheduler.py:115-121: the cron job; APScheduler runs one instance of a job
\* at a time (max_instances is left at 1) and skips a firing that finds the
\* previous one still running.
CronJob ==
    /\ Started
    /\ \A s \in ScanIds : Active(s) => run[s].trigger # "cron"
    /\ Begin(Len(scan_logs) + 1, "cron")
    /\ UNCHANGED startup

\* routes.py:158-174: a thread per request, started unconditionally.
manual_scan ==
    /\ Started
    /\ Begin(Len(scan_logs) + 1, "manual")
    /\ UNCHANGED startup

\* --------------------------------------------------- scan_libraries, by step
\* plex_client.py:20-33: the answers a request can get.  Without a token
\* _make_request raises before it sends anything.
Answers(sent) ==
    IF ~sent THEN {"unsent"} ELSE IF faults < MaxFaults THEN Statuses ELSE {"ok"}

Faults(sent, status) == IF sent /\ status # "ok" THEN faults + 1 ELSE faults

\* plex_client.py:35-76: connect() is False when the token is missing
\* (_make_request raises, line 23) and when the handshake request fails.
connect(handshake) == plex_token /\ handshake = "ok"

\* scheduler.py:17: the ScanLog a run writes is the one it created.
LatestLog(s) == Len(scan_logs)

OwnLog(s) == s

FailedLogNoTime(log, message, t) ==
    [log EXCEPT !.status = "failed", !.error_message = Some(message)]

\* scheduler.py:24-26
FailedLog(log, message, t) ==
    [log EXCEPT !.status = "failed", !.error_message = Some(message),
                !.scan_completed_at = Some(t)]

\* scheduler.py:32, 94-98
CompletedLogFound(log, r, t) ==
    [log EXCEPT !.total_libraries = Len(r.configs),
                !.total_media_found = r.total_media_found,
                !.total_matched = r.total_media_found,
                !.total_errors = r.total_errors,
                !.status = "completed", !.scan_completed_at = Some(t)]

CompletedLog(log, r, t) ==
    [log EXCEPT !.total_libraries = Len(r.configs),
                !.total_media_found = r.total_media_found,
                !.total_matched = r.total_matched,
                !.total_errors = r.total_errors,
                !.status = "completed", !.scan_completed_at = Some(t)]

\* scheduler.py:21-36: connect, then load the enabled configs.
Connect(s) ==
    /\ At(s, "connect")
    /\ \E handshake \in Answers(plex_token) :
          /\ faults' = Faults(plex_token, handshake)
          /\ IF connect(handshake)
             THEN /\ run' = [run EXCEPT ![s].server_info = TRUE,
                                        ![s].configs = EnabledConfigs,
                                        ![s].pc = "library"]
                  /\ UNCHANGED <<scan_logs, now>>
             ELSE /\ scan_logs' = [scan_logs EXCEPT ![OwnLog(s)] =
                         FailedLog(@, "Failed to connect to Plex server", now)]
                  /\ now' = now + 1
                  /\ run' = [run EXCEPT ![s].pc = "done", ![s].trigger = "none"]
    /\ UNCHANGED <<plex_token, library_configs, media_items, startup, matchVars, recentVars, connectVars>>

\* scheduler.py:38-44: the next config of the loop; get_recent_media cannot
\* raise, so the handler of lines 89-91 is never entered from it.
ScanLibrary(s) ==
    /\ At(s, "library")
    /\ run[s].lib < Len(run[s].configs)
    /\ \E status \in Answers(TRUE) :
          LET config == run[s].configs[run[s].lib + 1]
              recent_media == get_recent_media(config.library_key, status)
          IN /\ faults' = Faults(TRUE, status)
             /\ run' = [run EXCEPT
                    ![s].lib = @ + 1,
                    ![s].recent_media = recent_media,
                    ![s].total_media_found = @ + Len(recent_media),
                    ![s].fetched = Append(@, status = "ok"),
                    ![s].pc = IF recent_media = <<>> THEN "library" ELSE "media"]
    /\ UNCHANGED <<plex_token, library_configs, media_items, scan_logs, now,
                   startup, matchVars, recentVars, connectVars>>

\* scheduler.py:46-87: one item of recent_media.
ProcessMedia(s) ==
    /\ At(s, "media")
    /\ \E enforced \in Enforcements(run[s].pending) :
       LET r == run[s]
           config == r.configs[r.lib]
           media == Head(r.recent_media)
           rest == Tail(r.recent_media)
           next_pc == IF rest = <<>> THEN "library" ELSE "media"
       IN IF ~r.session_ok
          THEN \* the query raises (the session awaits a rollback): lines 85-87
               run' = [run EXCEPT ![s].total_errors = @ + 1,
                                  ![s].recent_media = rest, ![s].pc = next_pc]
          ELSE IF ~Flushes(r.pending, enforced)
          THEN \* the query's autoflush raises IntegrityError: lines 85-87
               run' = [run EXCEPT ![s].total_errors = @ + 1,
                                  ![s].session_ok = FALSE, ![s].pending = {},
                                  ![s].recent_media = rest, ![s].pc = next_pc]
          ELSE IF Existing(s, config.id, media)
          THEN \* lines 54-56
               run' = [run EXCEPT ![s].recent_media = rest, ![s].pc = next_pc]
          ELSE \* lines 58-83
               LET ret == match_with_agent(RemoteAnswer(media))
               IN run' = [run EXCEPT
                     ![s].called = @ \cup {<<config.id, media>>},
                     ![s].pending = @ \cup
                         {MediaItem(<<s, Cardinality(r.pending) + 1>>, config, media, ret)},
                     ![s].total_matched = IF ret.success THEN @ + 1 ELSE @,
                     ![s].total_errors = IF ret.success THEN @ ELSE @ + 1,
                     ![s].recent_media = rest, ![s].pc = next_pc]
    /\ UNCHANGED <<plex_token, library_configs, media_items, scan_logs, now,
                   startup, faults, matchVars, recentVars, connectVars>>

\* scheduler.py:93-108: the commit of line 100 publishes the session's rows
\* and the ScanLog together, or raises; after a failed flush the commit of
\* line 108 raises too, and the exception leaves scan_libraries.
FinishScan(s) ==
    /\ At(s, "library")
    /\ run[s].lib = Len(run[s].configs)
    /\ \E enforced \in Enforcements(run[s].pending) :
       IF run[s].session_ok /\ Flushes(run[s].pending, enforced)
       THEN /\ media_items' = media_items \cup run[s].pending
            /\ scan_logs' = [scan_logs EXCEPT ![OwnLog(s)] = CompletedLog(@, run[s], now)]
            /\ now' = now + 1
            /\ run' = [run EXCEPT ![s].pending = {}, ![s].pc = "done",
                                  ![s].trigger = "none"]
       ELSE /\ run' = [run EXCEPT ![s].pending = {}, ![s].session_ok = FALSE,
                                  ![s].pc = "raised"]
            /\ UNCHANGED <<media_items, scan_logs, now>>
    /\ UNCHANGED <<plex_token, library_configs, startup, faults, matchVars, recentVars, connectVars>>

\* The process is killed while scans run: every active run stops where it
\* is and its session, with the rows it holds, is gone.  The tables keep
\* what was committed; the next process starts with init_scheduler.
Crash ==
    /\ startup # 0
    /\ \E s \in ScanIds : Active(s)
    /\ run' = [s \in ScanIds |->
                 IF Active(s)
                 THEN [run[s] EXCEPT !.killed = TRUE, !.pending = {},
                                     !.trigger = "none"]
                 ELSE run[s]]
    /\ startup' = 0
    /\ UNCHANGED <<plex_token, library_configs, media_items, scan_logs, now,
                   faults, matchVars, recentVars, connectVars>>

Next ==
    \/ StartupScan
    \/ CronJob
    \/ manual_scan
    \/ \E s \in ScanIds : Connect(s)
    \/ \E s \in ScanIds : ScanLibrary(s)
    \/ \E s \in ScanIds : ProcessMedia(s)
    \/ \E s \in ScanIds : FinishScan(s)
    \/ Crash

Spec == Init /\ [][Next]_vars

\* ------------------------------------------- scans and config management
\* models.py:19: cascade='all, delete-orphan' deletes, with a config, the
\* rows of media_items that belong to it.
CascadeAll(config_id) == media_items

Cascade(config_id) == {row \in media_items : row.library_config_id = config_id}

\* routes.py:125-140: the config is looked up (404 when there is none),
\* deleted with its rows, and the deletion is committed.  Requests are
\* served once init_scheduler has returned.
delete_config(config_id) ==
    /\ Started
    /\ \E c \in library_configs : c.id = config_id
    /\ library_configs' = library_configs \ {ConfigOf(config_id)}
    /\ media_items' = media_items \ Cascade(config_id)
    /\ UNCHANGED <<plex_token, scan_logs, now, run, startup, faults, matchVars,
                   recentVars, connectVars>>

\* routes.py:101-123 (POST): the config is looked up (404 when there is
\* none); enabled is whether the form holds the field, and the form carries
\* no library_name or agent_name, so both keep their values; the change is
\* committed.
edit_config(config_id) ==
    /\ Started
    /\ \E c \in library_configs : c.id = config_id
    /\ \E enabled \in BOOLEAN :
          library_configs' = (library_configs \ {ConfigOf(config_id)}) \cup
              {[ConfigOf(config_id) EXCEPT !.enabled = enabled]}
    /\ UNCHANGED <<plex_token, media_items, scan_logs, now, run, startup, faults,
                   matchVars, recentVars, connectVars>>

\* The scheduled scans of one process with a token and every library
\* enabled, and the deletion of configs while they run.
InitConfig ==
    /\ plex_token = TRUE
    /\ library_configs = {LibraryConfig(n, TRUE) : n \in Libs}
    /\ media_items = {}
    /\ scan_logs = <<>>
    /\ now = 1
    /\ run = [s \in ScanIds |-> IdleRun]
    /\ startup = 0
    /\ faults = 0
    /\ media_guid = None
    /\ is_matched = None
    /\ NoCall

NextConfig ==
    \/ StartupScan
    \/ CronJob
    \/ \E s \in ScanIds : Connect(s)
    \/ \E s \in ScanIds : ScanLibrary(s)
    \/ \E s \in ScanIds : ProcessMedia(s)
    \/ \E s \in ScanIds : FinishScan(s)
    \/ \E config_id \in Libs : delete_config(config_id)

SpecConfig == InitConfig /\ [][NextConfig]_vars

\* The scheduled scans of one process with a token and every library
\* enabled at first, and the enabling and disabling of configs while they
\* run.
NextEdit ==
    \/ StartupScan
    \/ CronJob
    \/ \E s \in ScanIds : Connect(s)
    \/ \E s \in ScanIds : ScanLibrary(s)
    \/ \E s \in ScanIds : ProcessMedia(s)
    \/ \E s \in ScanIds : FinishScan(s)
    \/ \E config_id \in Libs : edit_config(config_id)

SpecEdit == InitConfig /\ [][NextEdit]_vars

\* ------------------------------------------------- is_guid_matched on its own
\* Identifier strings: a scheme, a separator and a rest, among them the
\* prefixes themselves, near misses of them, and external identifiers.
Schemes ==
    {<<>>, <<"p", "l", "e", "x">>, <<"l", "o", "c", "a", "l">>,
     <<"i", "m", "d", "b">>, <<"t", "v", "d", "b">>, <<"P", "l", "e", "x">>,
     <<"x", "p", "l", "e", "x">>, <<"l", "o", "c", "a">>, <<"p", "l", "e">>}
Separators == {<<>>, <<":">>, <<":", "/">>, <<":", "/", "/">>}
Rests == {<<>>, <<"x">>, <<"a", "b", "c">>, <<"t", "t", "1", "2", "3">>, <<"5", "5">>}

SampleGuids ==
    {None} \cup {Some(a \o b \o c) : a \in Schemes, b \in Separators, c \in Rests}

InitClassify ==
    /\ plex_token = TRUE
    /\ library_configs = {}
    /\ media_items = {}
    /\ scan_logs = <<>>
    /\ now = 1
    /\ run = [s \in ScanIds |-> IdleRun]
    /\ startup = 0
    /\ faults = 0
    /\ media_guid \in SampleGuids
    /\ is_matched = None
    /\ NoCall

\* plex_client.py:200
Classify ==
    /\ is_matched = None
    /\ is_matched' = Some(is_guid_matched(media_guid))
    /\ UNCHANGED <<plex_token, library_configs, media_items, scan_logs, now, run,
                   startup, faults, media_guid, args, remote, mpc, requests, result,
                   media_item, recentVars, connectVars>>

NextClassify == Classify

SpecClassify == InitClassify /\ [][NextClassify]_vars

\* ------------------------------------------------ match_with_agent, by step
\* One request of a match_with_agent call and the answer it got.
Request(method, target, guid, status) ==
    [method |-> method, target |-> target, guid |-> guid, status |-> status]

\* What the call returns: (success, message).
Return(ret) == Some([success |-> ret.success, message |-> ret.message])

InitReconcile ==
    /\ plex_token = TRUE
    /\ library_configs = {LibraryConfig(n, TRUE) : n \in Libs}
    /\ media_items = {}
    /\ scan_logs = <<>>
    /\ now = 1
    /\ run = [s \in ScanIds |-> IdleRun]
    /\ startup = 0
    /\ faults = 0
    /\ media_guid = None
    /\ is_matched = None
    /\ args \in {Some([config |-> c, media |-> <<c.library_key, 1>>]) : c \in library_configs}
    /\ remote \in {Some(r) : r \in RemoteResponses}
    /\ mpc = "lookup"
    /\ requests = <<>>
    /\ result = None
    /\ media_item = None
    /\ listing = <<>>
    /\ clock = 0
    /\ recent = None
    /\ NoConnect

\* plex_client.py:177-187: the item is looked up; media_guid stays None when
\* the answer holds no element with the item's key.
Lookup ==
    /\ mpc = "lookup"
    /\ requests' = Append(requests, Request("GET", "item", None, remote[1].lookup))
    /\ IF remote[1].lookup = "ok"
       THEN /\ media_guid' = remote[1].guid
            /\ mpc' = "classify"
            /\ UNCHANGED result
       ELSE /\ result' = Return(OuterHandler(remote[1].lookup, <<>>))
            /\ mpc' = "returned"
            /\ UNCHANGED media_guid
    /\ UNCHANGED <<plex_token, library_configs, media_items, scan_logs, now, run,
                   startup, faults, is_matched, args, remote, media_item, recentVars, connectVars>>

\* plex_client.py:200-202
ClassifyItem ==
    /\ mpc = "classify"
    /\ is_matched' = Some(is_guid_matched(media_guid))
    /\ mpc' = branch(is_guid_matched(media_guid))
    /\ UNCHANGED <<plex_token, library_configs, media_items, scan_logs, now, run,
                   startup, faults, media_guid, args, remote, requests, result,
                   media_item, recentVars, connectVars>>

\* plex_client.py:203-211
Refresh ==
    /\ mpc = "refresh"
    /\ requests' = Append(requests, Request("PUT", "refresh", None, remote[1].refresh))
    /\ result' = IF remote[1].refresh = "ok"
                 THEN Return(Result(TRUE, <<"Refreshed matched media">>, <<>>))
                 ELSE Return(OuterHandler(remote[1].refresh, <<>>))
    /\ mpc' = "returned"
    /\ UNCHANGED <<plex_token, library_configs, media_items, scan_logs, now, run,
                   startup, faults, media_guid, is_matched, args, remote, media_item,
                   recentVars, connectVars>>

\* plex_client.py:215-228, 239-249: the candidates are fetched and the first
\* one is looked at.
FetchMatches ==
    /\ mpc = "matches"
    /\ requests' = Append(requests, Request("GET", "matches", None, remote[1].matches))
    /\ IF remote[1].matches # "ok"
       THEN /\ result' = Return(InnerHandler(remote[1].matches, <<>>))
            /\ mpc' = "returned"
       ELSE IF remote[1].cands = <<>>
       THEN /\ result' = Return(Result(TRUE, <<"No matches available">>, <<>>))
            /\ mpc' = "returned"
       ELSE IF ~has_guid(first_match(remote[1].cands).guid)
       THEN /\ result' = Return(Result(TRUE, <<"Match found but no guid available">>, <<>>))
            /\ mpc' = "returned"
       ELSE /\ mpc' = "apply"
            /\ UNCHANGED result
    /\ UNCHANGED <<plex_token, library_configs, media_items, scan_logs, now, run,
                   startup, faults, media_guid, is_matched, args, remote, media_item,
                   recentVars, connectVars>>

\* plex_client.py:229-238, 243-249: the first candidate is applied.
ApplyMatch ==
    /\ mpc = "apply"
    /\ LET match == first_match(remote[1].cands)
       IN /\ requests' = Append(requests,
                             Request("PUT", "match", match.guid, remote[1].apply))
          /\ result' = IF remote[1].apply = "ok"
                       THEN Return(Result(TRUE, <<"Matched", match.name>>, <<>>))
                       ELSE Return(InnerHandler(remote[1].apply, <<>>))
    /\ mpc' = "returned"
    /\ UNCHANGED <<plex_token, library_configs, media_items, scan_logs, now, run,
                   startup, faults, media_guid, is_matched, args, remote, media_item,
                   recentVars, connectVars>>

\* scheduler.py:59-82: the row scan_libraries makes of what the call
\* returned and hands to db.session.add.
Record ==
    /\ mpc = "returned"
    /\ media_item' = Some(MediaItem(<<1, 1>>, args[1].config, args[1].media, result[1]))
    /\ mpc' = "recorded"
    /\ UNCHANGED <<plex_token, library_configs, media_items, scan_logs, now, run,
                   startup, faults, media_guid, is_matched, args, remote, requests,
                   result, recentVars, connectVars>>

NextReconcile ==
    \/ Lookup
    \/ ClassifyItem
    \/ Refresh
    \/ FetchMatches
    \/ ApplyMatch
    \/ Record

SpecReconcile == InitReconcile /\ [][NextReconcile]_vars

\* ------------------------------------------------ get_recent_media on its own
\* datetime.now(...).timestamp() is a float: the clock counts ticks, of which
\* TicksPerSecond make an epoch second; int() drops the fraction.
TicksPerSecond == 2
SecondsPerHour == 3600
WindowHours == 24

\* plex_client.py:111-113
cutoff_timestamp(ticks, hours) ==
    (ticks - hours * SecondsPerHour * TicksPerSecond) \div TicksPerSecond

\* int(str) for the strings of AddedAtValues: blanks around the number are
\* stripped, a sign may come first, and at least one digit must follow and
\* nothing else; None stands for ValueError.
Digits == <<"0", "1", "2", "3", "4", "5", "6", "7", "8", "9">>

DigitValue(c) == (CHOOSE i \in DOMAIN Digits : Digits[i] = c) - 1

IsDigit(c) == \E i \in DOMAIN Digits : Digits[i] = c

RECURSIVE strip(_)
strip(s) ==
    IF s = <<>> THEN s
    ELSE IF Head(s) = " " THEN strip(Tail(s))
    ELSE IF s[Len(s)] = " " THEN strip(SubSeq(s, 1, Len(s) - 1))
    ELSE s

RECURSIVE DigitsValue(_)
DigitsValue(s) ==
    IF s = <<>> THEN 0
    ELSE 10 * DigitsValue(SubSeq(s, 1, Len(s) - 1)) + DigitValue(s[Len(s)])

int(str) ==
    LET s == strip(str)
        signed == s # <<>> /\ Head(s) \in {"+", "-"}
        body == IF signed THEN Tail(s) ELSE s
    IN IF body = <<>> \/ \E i \in DOMAIN body : ~IsDigit(body[i]) THEN None
       ELSE Some(IF signed /\ Head(s) = "-" THEN 0 - DigitsValue(body)
                 ELSE DigitsValue(body))

\* plex_client.py:130
InWindowStrict(added_at_timestamp, cutoff) == added_at_timestamp > cutoff

InWindow(added_at_timestamp, cutoff) == added_at_timestamp >= cutoff

\* plex_client.py:122: the Video, Track and Photo elements, in that order.
IsVideo(item) == item.tag = "Video"
IsTrack(item) == item.tag = "Track"
IsPhoto(item) == item.tag = "Photo"

findall(items) ==
    SelectSeq(items, IsVideo) \o SelectSeq(items, IsTrack) \o SelectSeq(items, IsPhoto)

\* plex_client.py:123-153: the elements kept, in the order met.  addedAt of
\* a kept element is the parsed timestamp (datetime.fromtimestamp of it).
\* The digits of a string int() accepts, and whether it accepts the string.
digits_of(str) ==
    LET s == strip(str)
    IN IF s # <<>> /\ Head(s) \in {"+", "-"} THEN Tail(s) ELSE s

is_integer(str) ==
    digits_of(str) # <<>> /\ \A i \in DOMAIN digits_of(str) : IsDigit(digits_of(str)[i])

\* plex_client.py:127: datetime.fromtimestamp of a number of so many digits.
\* Up to 11 digits it converts; 13 to 16 digits are past year 9999
\* (ValueError); 20 digits and more are past the platform's time_t
\* (OverflowError).  Numbers of 12 and of 17 to 19 digits fall on either
\* side of a limit and are not among AddedAtValues.
fromtimestamp(digits) ==
    IF digits <= 11 THEN "ok"
    ELSE IF digits <= 16 THEN "ValueError"
    ELSE IF digits >= 20 THEN "OverflowError"
    ELSE "OSError"

\* plex_client.py:123-127: what reading the element's addedAt comes to:
\* "absent" (line 124), an exception's name, or "ok".
added_at_of(item) ==
    IF item.addedAt = None \/ item.addedAt = Some(<<>>) THEN "absent"
    ELSE IF ~is_integer(item.addedAt[1]) THEN "ValueError"
    ELSE fromtimestamp(Len(digits_of(item.addedAt[1])))

\* plex_client.py:151: the exceptions the loop catches; any other leaves
\* the loop for the handlers of lines 160-168.
caught_all(outcome) == TRUE

caught(outcome) == outcome \in {"ValueError", "TypeError"}

escapes(items) ==
    \E i \in DOMAIN items :
        added_at_of(items[i]) \notin {"absent", "ok"} /\ ~caught(added_at_of(items[i]))

RECURSIVE within(_, _)
within(items, cutoff) ==
    IF items = <<>> THEN <<>>
    ELSE LET item == Head(items)
         IN IF added_at_of(item) = "ok" /\ InWindow(int(item.addedAt[1])[1], cutoff)
            THEN <<[key |-> item.key, addedAt |-> int(item.addedAt[1])[1]]>>
                     \o within(Tail(items), cutoff)
            ELSE within(Tail(items), cutoff)

\* plex_client.py:156: list.sort(key=addedAt, reverse=True), which is stable.
RECURSIVE sort_descending(_)
sort_descending(s) ==
    IF s = <<>> THEN <<>>
    ELSE LET x == s[Len(s)]
             sorted == sort_descending(SubSeq(s, 1, Len(s) - 1))
             k == Cardinality({i \in DOMAIN sorted : sorted[i].addedAt >= x.addedAt})
         IN SubSeq(sorted, 1, k) \o <<x>> \o SubSeq(sorted, k + 1, Len(sorted))

\* plex_client.py:109-168 for a connected client: the listing request fails
\* (every failure is caught, lines 160-168), or an element's addedAt raises
\* what line 151 does not catch, or the elements are filtered and sorted.
recent_media_of(status, items, ticks, hours) ==
    IF status # "ok" THEN <<>>
    ELSE IF escapes(findall(items)) THEN <<>>
    ELSE sort_descending(within(findall(items), cutoff_timestamp(ticks, hours)))

\* The listings: up to MaxListing elements whose addedAt attribute is absent,
\* empty, a number around the cutoff, not a number, or a number too large
\* for a date.
MaxListing == 2
Tags == {"Video", "Track", "Directory"}
AddedAtValues ==
    {None, Some(<<>>), Some(<<"9">>), Some(<<"1", "0">>), Some(<<"1", "1">>),
     Some(<<" ", "1", "2">>), Some(<<"1", ".", "5">>), Some(<<"a">>),
     Some(<<"1", "0", "0", "0", "0", "0", "0", "0", "0", "0", "0", "0", "0">>),
     Some(<<"1", "0", "0", "0", "0", "0", "0", "0", "0", "0", "0", "0", "0", "0",
            "0", "0", "0", "0", "0", "0", "0">>)}
Elements == [tag : Tags, addedAt : AddedAtValues]
Listings ==
    UNION {{[i \in 1..n |-> [key |-> i, tag |-> f[i].tag, addedAt |-> f[i].addedAt]] :
               f \in [1..n -> Elements]} : n \in 0..MaxListing}

\* Clock readings that put the cutoff at 10 and at 11 epoch seconds.
Clocks ==
    {(WindowHours * SecondsPerHour + 10) * TicksPerSecond + d : d \in 0..TicksPerSecond}

InitRecent ==
    /\ plex_token = TRUE
    /\ library_configs = {}
    /\ media_items = {}
    /\ scan_logs = <<>>
    /\ now = 1
    /\ run = [s \in ScanIds |-> IdleRun]
    /\ startup = 0
    /\ faults = 0
    /\ media_guid = None
    /\ is_matched = None
    /\ args = None
    /\ remote = None
    /\ mpc = "idle"
    /\ requests = <<>>
    /\ result = None
    /\ media_item = None
    /\ listing \in [status : Statuses, items : Listings]
    /\ clock \in Clocks
    /\ recent = None
    /\ NoConnect

\* scheduler.py:43: get_recent_media(config.library_key, hours=24)
GetRecentMedia ==
    /\ recent = None
    /\ recent' = Some(recent_media_of(listing.status, listing.items, clock, WindowHours))
    /\ UNCHANGED <<plex_token, library_configs, media_items, scan_logs, now, run,
                   startup, faults, matchVars, listing, clock, connectVars>>

NextRecent == GetRecentMedia

SpecRecent == InitRecent /\ [][NextRecent]_vars

\* ----------------------------------------------------------------- connect
MaxSettings == 2       \* Setting elements in the answer to /:/prefs

UTC == "UTC"

UnknownTimeZoneError == "UnknownTimeZoneError"

\* pytz.timezone(zone): the name is looked up without regard to case and the
\* zone of that name is returned; UnknownTimeZoneError is raised for a name
\* that is no zone, the empty name among them.
timezone(zone) ==
    IF zone \in {"UTC", "utc"} THEN UTC
    ELSE IF zone \in {"Europe/Prague", "europe/prague"} THEN "Europe/Prague"
    ELSE IF zone = "America/New_York" THEN "America/New_York"
    ELSE UnknownTimeZoneError

\* os.getenv(key, default) for the one variable the program reads here.
getenv(default) == IF environ = None THEN default ELSE environ[1]

\* config.py:4-9
tz_name == getenv("UTC")

TZ_UTC == UTC

TZ == IF timezone(tz_name) = UnknownTimeZoneError THEN UTC ELSE timezone(tz_name)

\* plex_client.py:49-54: the value of the first Setting whose id is
\* TimezoneName; None when there is none, or when it has no value.
RECURSIVE timezone_pref(_)
timezone_pref(settings) ==
    IF settings = <<>> THEN None
    ELSE IF Head(settings).id = "TimezoneName" THEN Head(settings).value
    ELSE timezone_pref(Tail(settings))

\* Python's truth of an optional string.
truthy(value) == value # None /\ value[1] # ""

\* plex_client.py:46-65: the zone the preferences give, TZ when they name
\* none, and TZ when the request or the lookup of the name raises.
timezone_of(prefs, settings) ==
    IF prefs # "ok" THEN TZ
    ELSE IF truthy(timezone_pref(settings))
    THEN IF timezone(timezone_pref(settings)[1]) = UnknownTimeZoneError
         THEN TZ
         ELSE timezone(timezone_pref(settings)[1])
    ELSE TZ

SettingIds == {"TimezoneName", "FriendlyName"}

SettingValues == {None, Some(""), Some("utc"), Some("America/New_York"), Some("Mars/Olympus")}

Settings == [id : SettingIds, value : SettingValues]

SettingLists == UNION {[1..n -> Settings] : n \in 0..MaxSettings}

Environments == {None, Some("Europe/Prague"), Some("Mars/Olympus"), Some("")}

InitConnect ==
    /\ plex_token = TRUE
    /\ library_configs = {}
    /\ media_items = {}
    /\ scan_logs = <<>>
    /\ now = 1
    /\ run = [s \in ScanIds |-> IdleRun]
    /\ startup = 0
    /\ faults = 0
    /\ media_guid = None
    /\ is_matched = None
    /\ args = None
    /\ remote = None
    /\ mpc = "idle"
    /\ requests = <<>>
    /\ result = None
    /\ media_item = None
    /\ listing = <<>>
    /\ clock = 0
    /\ recent = None
    /\ environ \in Environments
    /\ server \in [root : Statuses, prefs : Statuses, settings : SettingLists]
    /\ connected = None
    /\ server_timezone = None

\* plex_client.py:35-76: False when the first request fails; otherwise the
\* zone is set and True is returned.
PlexClient_connect ==
    /\ connected = None
    /\ IF connect(server.root)
       THEN /\ server_timezone' = Some(timezone_of(server.prefs, server.settings))
            /\ connected' = Some(TRUE)
       ELSE /\ connected' = Some(FALSE)
            /\ UNCHANGED server_timezone
    /\ UNCHANGED <<plex_token, library_configs, media_items, scan_logs, now, run,
                   startup, faults, matchVars, recentVars, environ, server>>

NextConnect == PlexClient_connect

SpecConnect == InitConnect /\ [][NextConnect]_vars

\* ------------------------------------------------------------------ claims
ActiveScans == {s \in ScanIds : Active(s)}

\* The run returned, or an exception left it.
Finished(s) == run[s].pc \in {"done", "raised"}

\* The run is over: it finished, or the process was killed under it.
Ended(s) == Finished(s) \/ run[s].killed

\* The rows a run has made, committed or still in its session.
RowsOf(s) == {row \in media_items \cup run[s].pending : row.id[1] = s}

\* The (config, item) pairs get_recent_media has returned to a run.
PairsOf(config) ==
    LET recent_media == RemoteItems(config.library_key)
    IN {<<config.id, recent_media[n]>> : n \in DOMAIN recent_media}

Returned(s) ==
    UNION {PairsOf(run[s].configs[i]) :
              i \in {j \in DOMAIN run[s].fetched : run[s].fetched[j]}}

\* Run s2 started after run s1 had finished.
RanAfter(s2, s1) ==
    /\ scan_logs[s1].scan_completed_at # None
    /\ scan_logs[s1].scan_completed_at[1] < scan_logs[s2].scan_started_at

\* C1: at most one run of scan_libraries is active in any reachable state.
C1_AtMostOneActiveScan == Cardinality(ActiveScans) <= 1

\* C2: the committed ledger never holds two MediaItem rows with the same
\* (library_config_id, plex_key) pair.
C2_LedgerPairsUnique ==
    \A a \in media_items : \A b \in media_items : Pair(a) = Pair(b) => a = b

\* C2 witness: two runs both took the same item as not yet processed, the
\* row of one is committed and the other run has ended.
C2_RacedOnSameItem ==
    \E s1 \in ScanIds : \E s2 \in ScanIds \ {s1} : \E row \in media_items :
        /\ row.id[1] = s1
        /\ Pair(row) \in run[s2].called
        /\ Finished(s2)
        /\ RowsOf(s2) = {}

\* C3: match_with_agent is invoked at most once for any (library config,
\* item key) pair, over all runs.
C3_ReconciledAtMostOnce ==
    \A s1 \in ScanIds : \A s2 \in ScanIds \ {s1} :
        run[s1].called \cap run[s2].called = {}

\* C4: a scan that runs after a completed scan, and is returned no item the
\* completed scan was not returned, creates no MediaItem row and calls
\* match_with_agent for no item.
C4_SecondScanIdempotent ==
    \A s1 \in DOMAIN scan_logs : \A s2 \in DOMAIN scan_logs :
        ( /\ s1 # s2
          /\ scan_logs[s1].status = "completed"
          /\ RanAfter(s2, s1)
          /\ Finished(s2)
          /\ Returned(s2) \subseteq Returned(s1) )
        => run[s2].called = {} /\ RowsOf(s2) = {}

\* C4 witness: the second scan completed and was returned items, all of them
\* returned to the first scan as well, and the first scan made rows.
C4_SecondScanRan ==
    \E s1 \in DOMAIN scan_logs : \E s2 \in DOMAIN scan_logs :
        /\ s1 # s2
        /\ scan_logs[s1].status = "completed"
        /\ RanAfter(s2, s1)
        /\ scan_logs[s2].status = "completed"
        /\ Returned(s2) # {}
        /\ Returned(s2) \subseteq Returned(s1)
        /\ \E row \in media_items : row.id[1] = s1

\* C5: no run is over (returned, left by an exception, or killed with its
\* process) with its ScanLog still at status running.
C5_NoRecordLeftRunning ==
    \A s \in DOMAIN scan_logs :
        Ended(s) => scan_logs[s].status \in {"completed", "failed"}

\* C6: a ScanLog starts as running without a completion time; it changes only
\* in a step of the run that created it, which then ends, and only from
\* running to completed or failed, its completion time being set in that
\* step; a ScanLog that is completed or failed never changes again.
C6_RecordLifecycle ==
    [][ /\ \A s \in DOMAIN scan_logs :
            /\ scan_logs[s].status # "running" => scan_logs'[s] = scan_logs[s]
            /\ scan_logs'[s] # scan_logs[s] =>
                  /\ scan_logs[s].status = "running"
                  /\ scan_logs'[s].status \in {"completed", "failed"}
                  /\ scan_logs[s].scan_completed_at = None
                  /\ scan_logs'[s].scan_completed_at # None
                  /\ Active(s) /\ run'[s].pc = "done"
                  /\ \A r \in ScanIds \ {s} : run'[r] = run[r]
        /\ \A s \in DOMAIN scan_logs' \ DOMAIN scan_logs :
            /\ scan_logs'[s].status = "running"
            /\ scan_logs'[s].scan_completed_at = None
      ]_vars

\* C6 witness: of two overlapping runs one completed its record first, and
\* the other then made its own record terminal.
C6_TwoTerminalRecords ==
    \E s1 \in DOMAIN scan_logs : \E s2 \in DOMAIN scan_logs :
        /\ s1 # s2
        /\ scan_logs[s1].status = "completed"
        /\ scan_logs[s2].status \in {"completed", "failed"}
        /\ scan_logs[s1].scan_completed_at[1] < scan_logs[s2].scan_completed_at[1]
        /\ scan_logs[s2].scan_started_at < scan_logs[s1].scan_completed_at[1]

\* C7: a scan that returned and in which the fetch of a library's recent
\* items failed has gone through every config, is completed, and has
\* total_errors >= 1.
C7_FetchFailureCounted ==
    \A s \in DOMAIN scan_logs :
        (run[s].pc = "done" /\ \E i \in DOMAIN run[s].fetched : ~run[s].fetched[i])
        => /\ Len(run[s].fetched) = Len(run[s].configs)
           /\ scan_logs[s].status = "completed"
           /\ scan_logs[s].total_errors >= 1

\* C8: a run whose connect() failed has ended; its ScanLog is failed with the
\* connection error message and a completion time and with all counters
\* zero; it fetched no library, called match_with_agent for no item and
\* made no MediaItem row.
C8_ConnectFailureFinalizes ==
    \A s \in DOMAIN scan_logs :
        (run[s].pc # "connect" /\ ~run[s].server_info)
        => /\ run[s].pc = "done"
           /\ scan_logs[s].status = "failed"
           /\ scan_logs[s].error_message = Some("Failed to connect to Plex server")
           /\ scan_logs[s].scan_completed_at # None
           /\ scan_logs[s].total_libraries = 0
           /\ scan_logs[s].total_media_found = 0
           /\ scan_logs[s].total_matched = 0
           /\ scan_logs[s].total_errors = 0
           /\ run[s].fetched = <<>>
           /\ run[s].called = {}
           /\ RowsOf(s) = {}

\* C8 witness: with the token set, a run's handshake failed and the run has
\* ended, while the ledger holds rows of another run.
C8_HandshakeFailed ==
    \E s \in DOMAIN scan_logs :
        /\ plex_token
        /\ run[s].pc = "done"
        /\ ~run[s].server_info
        /\ media_items # {}

\* C9: with PLEX_TOKEN empty no ScanLog is ever created (and so none is
\* reported as failed with the connection error).
C9_NoScanWithoutToken == ~plex_token => scan_logs = <<>>

\* p is a prefix of s, character by character.
HasPrefix(s, p) ==
    \E n \in 0..Len(s) : n = Len(p) /\ \A i \in 1..n : s[i] = p[i]

\* C10: is_guid_matched returns False exactly for an absent or empty
\* identifier and for one that starts with "plex://" or "local://", and True
\* for every other identifier; the answer depends on the identifier alone.
C10_ClassifyExact ==
    is_matched # None =>
        LET unmatched ==
                \/ media_guid = None
                \/ media_guid = Some(<<>>)
                \/ media_guid # None /\ HasPrefix(media_guid[1], PLEX_PREFIX)
                \/ media_guid # None /\ HasPrefix(media_guid[1], LOCAL_PREFIX)
        IN /\ is_matched = Some(~unmatched)
           /\ media_guid = Some(<<"i", "m", "d", "b", ":", "/", "/", "t", "t", "1", "2", "3">>)
                 => is_matched = Some(TRUE)
           /\ media_guid = Some(<<"t", "v", "d", "b", ":", "/", "/", "5", "5">>)
                 => is_matched = Some(TRUE)
           /\ media_guid = Some(<<"p", "l", "e", "x", ":", "/", "/", "a", "b", "c">>)
                 => is_matched = Some(FALSE)
           /\ media_guid = Some(<<"l", "o", "c", "a", "l", ":", "/", "/", "x">>)
                 => is_matched = Some(FALSE)

\* C10 witness: "local://x" has been classified, as unmatched.
C10_LocalClassified ==
    /\ media_guid = Some(<<"l", "o", "c", "a", "l", ":", "/", "/", "x">>)
    /\ is_matched = Some(FALSE)

\* The keys of the items get_recent_media returned.
RecentKeys == {recent[1][i].key : i \in DOMAIN recent[1]}

\* C11: with cutoff the whole epoch seconds of now minus 24 hours (10 when
\* now is less than a second past 86410, 11 at 86411), get_recent_media
\* returns an item whose addedAt is the cutoff and leaves out an item whose
\* addedAt is one second less.
C11_WindowBoundary ==
    (recent # None /\ listing.status = "ok") =>
        \A i \in DOMAIN listing.items :
            LET item == listing.items[i]
                cutoff == IF clock \div TicksPerSecond = 86410 THEN 10 ELSE 11
            IN item.tag \in {"Video", "Track", "Photo"} =>
                  /\ (cutoff = 10 /\ item.addedAt = Some(<<"1", "0">>)) => item.key \in RecentKeys
                  /\ (cutoff = 10 /\ item.addedAt = Some(<<"9">>)) => item.key \notin RecentKeys
                  /\ (cutoff = 11 /\ item.addedAt = Some(<<"1", "1">>)) => item.key \in RecentKeys
                  /\ (cutoff = 11 /\ item.addedAt = Some(<<"1", "0">>)) => item.key \notin RecentKeys

\* Half a second past 86410, of a listing with an item added at 10 and an
\* item added at 9 the call returned the first alone.
C11_BoundaryItemsListed ==
    /\ recent # None
    /\ listing.status = "ok"
    /\ clock = 86410 * TicksPerSecond + 1
    /\ Len(listing.items) = 2
    /\ listing.items[1] = [key |-> 1, tag |-> "Video", addedAt |-> Some(<<"9">>)]
    /\ listing.items[2] = [key |-> 2, tag |-> "Video", addedAt |-> Some(<<"1", "0">>)]
    /\ RecentKeys = {2}

\* ---- match_with_agent
\* The call has returned to scan_libraries.
CallReturned == mpc \in {"returned", "recorded"}

\* The mutating commands the call has sent, in order.
IsPut(q) == q.method = "PUT"
Puts == SelectSeq(requests, IsPut)

\* The lookup was answered, and the identifier it gave is one of the
\* unmatched kind: absent, empty, or starting with plex:// or local://.
LookedUp == requests # <<>> /\ requests[1].status = "ok"

Unmatched(guid) ==
    \/ guid = None
    \/ guid = Some(<<>>)
    \/ guid # None /\ HasPrefix(guid[1], PLEX_PREFIX)
    \/ guid # None /\ HasPrefix(guid[1], LOCAL_PREFIX)

\* The call by steps returns what match_with_agent, the operator the scan
\* uses, computes, and sends the commands it lists.
StepsAgree ==
    CallReturned =>
        LET ret == match_with_agent(remote[1])
        IN /\ result = Return(ret)
           /\ Len(Puts) = Len(ret.commands)
           /\ \A i \in DOMAIN Puts :
                 /\ Puts[i].target = ret.commands[i][1]
                 /\ Puts[i].target = "match" => Puts[i].guid = ret.commands[i][2]

\* C12: match_with_agent never raises, and whenever one of its requests
\* (lookup, refresh, candidate fetch, apply) was answered 404 or with another
\* HTTP error status it returns (False, message).
C12_FailuresReturnFalse ==
    /\ mpc # "raised"
    /\ CallReturned =>
          /\ result # None
          /\ (\E i \in DOMAIN requests : requests[i].status \in {"404", "500"})
                => (~result[1].success /\ result[1].message # <<>>)

\* Lookup first, then the classification, then the commands: is_matched is
\* set only after an answered lookup, and no command is sent before it is set.
ClassifiedAfterLookup ==
    /\ is_matched # None =>
          (requests # <<>> /\ requests[1] = Request("GET", "item", None, "ok"))
    /\ Puts # <<>> => is_matched # None

\* C13 as stated: for an identifier of the matched kind the call sends the
\* lookup and one refresh and nothing else, and returns success; it
\* classifies after the lookup and before any command.
C13_MatchedRefreshedWithSuccess ==
    /\ ClassifiedAfterLookup
    /\ (CallReturned /\ LookedUp /\ ~Unmatched(media_guid)) =>
          /\ requests = <<Request("GET", "item", None, "ok"),
                          Request("PUT", "refresh", None, remote[1].refresh)>>
          /\ result[1].success

\* C13 amended: for an identifier of the matched kind the call sends the
\* lookup and one refresh and nothing else; it returns success when the
\* refresh is answered without error and (False, message) when it is not;
\* it classifies after the lookup and before any command.
C13_MatchedRefreshedOnce ==
    /\ ClassifiedAfterLookup
    /\ (CallReturned /\ LookedUp /\ ~Unmatched(media_guid)) =>
          /\ requests = <<Request("GET", "item", None, "ok"),
                          Request("PUT", "refresh", None, remote[1].refresh)>>
          /\ result[1].success <=> remote[1].refresh = "ok"
          /\ result[1].message # <<>>

\* C13 witness: an item with an imdb:// identifier was refreshed and the call
\* returned success.
C13_ImdbItemRefreshed ==
    /\ CallReturned
    /\ media_guid = GUID_IMDB
    /\ is_matched = Some(TRUE)
    /\ Len(Puts) = 1
    /\ result[1].success

\* The candidates were fetched and the first one has an identifier.
FirstCandidateHasGuid ==
    /\ LookedUp /\ Unmatched(media_guid)
    /\ remote[1].matches = "ok"
    /\ remote[1].cands # <<>>
    /\ remote[1].cands[1].guid \notin {None, Some(<<>>)}

\* C14 as stated: for an unmatched item whose first candidate has an
\* identifier the call sends one command, the match with that candidate's
\* identifier, and returns success with a message holding the candidate's
\* name; the row the scan makes has match_successful true and agent_matched
\* the config's agent name.
C14_FirstCandidateAppliedWithSuccess ==
    (mpc = "recorded" /\ FirstCandidateHasGuid) =>
        /\ Puts = <<Request("PUT", "match", remote[1].cands[1].guid, remote[1].apply)>>
        /\ result[1].success
        /\ \E i \in DOMAIN result[1].message :
              result[1].message[i] = remote[1].cands[1].name
        /\ media_item[1].match_successful
        /\ media_item[1].agent_matched = args[1].config.agent_name

\* C14 amended: for an unmatched item whose first candidate has an
\* identifier the call sends one command, the match with that candidate's
\* identifier; when the remote answers it without error the call returns
\* success with a message holding the candidate's name, and the row the scan
\* makes has match_successful true and agent_matched the config's agent name.
C14_FirstCandidateApplied ==
    (mpc = "recorded" /\ FirstCandidateHasGuid) =>
        /\ Puts = <<Request("PUT", "match", remote[1].cands[1].guid, remote[1].apply)>>
        /\ remote[1].apply = "ok" =>
              /\ result[1].success
              /\ \E i \in DOMAIN result[1].message :
                    result[1].message[i] = remote[1].cands[1].name
              /\ media_item[1].match_successful
              /\ media_item[1].agent_matched = args[1].config.agent_name
              /\ media_item[1].error_message = None

\* C14 witness: of the candidates Foo and Bar, Foo was applied to an item
\* of library 1 and the row says TheMovieDB matched it.
C14_FooApplied ==
    /\ mpc = "recorded"
    /\ media_guid = GUID_INTERNAL
    /\ remote[1].cands = <<CAND_FOO, CAND_BAR>>
    /\ Puts = <<Request("PUT", "match", CAND_FOO.guid, "ok")>>
    /\ media_item[1].match_successful
    /\ media_item[1].agent_matched = "TheMovieDB"

\* C15: for an unmatched item whose candidate list is empty or whose first
\* candidate has no identifier the call returns success with a message and
\* sends no command.
C15_NoCandidateIsSuccess ==
    ( /\ CallReturned
      /\ LookedUp /\ Unmatched(media_guid)
      /\ remote[1].matches = "ok"
      /\ \/ remote[1].cands = <<>>
         \/ remote[1].cands[1].guid \in {None, Some(<<>>)} )
    => /\ result[1].success
       /\ result[1].message # <<>>
       /\ Puts = <<>>
       /\ Len(requests) = 2

\* C15 witness: the first candidate of an item with a local:// identifier has
\* an empty identifier, and the call returned success.
C15_BlankCandidate ==
    /\ CallReturned
    /\ media_guid = GUID_LOCAL
    /\ remote[1].cands = <<CAND_EMPTYGUID, CAND_BAR>>
    /\ requests[Len(requests)] = Request("GET", "matches", None, "ok")
    /\ result[1].success

\* ---- the ledger under concurrent and interrupted scans
\* The ledger holds a row for the pair.
InLedger(pair) == \E row \in media_items : Pair(row) = pair

\* Run s tried to insert a row for a pair another run has committed.
DuplicateInsert(s) ==
    \E pair \in run[s].called :
        \E row \in media_items : Pair(row) = pair /\ row.id[1] # s

\* C16: a run that tried to insert a row for a pair another run had committed
\* finishes with its ScanLog completed, and the ledger holds a row for every
\* pair it reconciled.
C16_DuplicateInsertSkipped ==
    \A s \in DOMAIN scan_logs :
        (Finished(s) /\ DuplicateInsert(s)) =>
            /\ scan_logs[s].status = "completed"
            /\ \A pair \in run[s].called : InLedger(pair)

\* The configs whose items a run has gone through to the end.
LibrariesDone(s) ==
    IF run[s].pc = "media" THEN run[s].lib - 1 ELSE run[s].lib

\* C17: when the process is killed under a run, the ledger holds a row for
\* every item the run reconciled in the libraries it had gone through.
C17_FinishedLibrariesDurable ==
    \A s \in DOMAIN scan_logs :
        run[s].killed =>
            \A i \in 1..LibrariesDone(s) :
                \A pair \in run[s].called :
                    pair[1] = run[s].configs[i].id => InLedger(pair)

\* C20: the counters of a completed scan count the items it reconciled and
\* not the items it skipped as already in the ledger: total_media_found, and
\* total_matched + total_errors, are the number of match_with_agent calls.
C20_SkippedItemsNotCounted ==
    \A s \in DOMAIN scan_logs :
        scan_logs[s].status = "completed" =>
            /\ scan_logs[s].total_media_found = Cardinality(run[s].called)
            /\ scan_logs[s].total_matched + scan_logs[s].total_errors
                   = Cardinality(run[s].called)

\* ---- the ledger and config management
\* C18: no step changes a row of the ledger (a row of the next state with
\* the id of a row of this state is that row), and a row goes away only in a
\* step after which its config is gone too.
C18_RowsNeverModified ==
    [][ \A a \in media_items :
            /\ \A b \in media_items' : b.id = a.id => b = a
            /\ a \notin media_items' =>
                  ~ \E c \in library_configs' : c.id = a.library_config_id
      ]_vars

\* C18 witness: a scan that began after an earlier scan had completed was
\* returned an item the earlier scan had recorded, skipped it and completed;
\* the row is in the ledger, and another config has been deleted since.
C18_RowSeenAgain ==
    \E s1 \in DOMAIN scan_logs : \E s2 \in DOMAIN scan_logs :
        \E row \in media_items :
            /\ row.id[1] = s1
            /\ scan_logs[s1].status = "completed"
            /\ RanAfter(s2, s1)
            /\ scan_logs[s2].status = "completed"
            /\ Pair(row) \in Returned(s2)
            /\ Pair(row) \notin run[s2].called
            /\ Cardinality(library_configs) < NumLibs

\* C19: every row of the ledger belongs to a config that exists.
C19_NoOrphanRows ==
    \A row \in media_items : \E c \in library_configs : c.id = row.library_config_id

\* ---- failures of single items
\* The rows run s has committed.
CommittedBy(s) == {row \in media_items : row.id[1] = s}

\* C21: a run that has ended after one of its items failed (the call
\* returned failure, or processing the item raised) is completed; every item
\* it was returned was reconciled by it or is in the ledger; total_errors is
\* the number of its items whose call returned failure or whose processing
\* raised, one each; and each call that returned failure left a row with
\* match_successful false and the failure message.
C21_ItemFailuresIsolated ==
    \A s \in DOMAIN scan_logs :
        (Finished(s) /\ run[s].total_errors >= 1) =>
            /\ scan_logs[s].status = "completed"
            /\ \A pair \in Returned(s) : pair \in run[s].called \/ InLedger(pair)
            /\ \A pair \in run[s].called :
                  LET ret == match_with_agent(RemoteAnswer(pair[2]))
                  IN ~ret.success =>
                        \E row \in CommittedBy(s) :
                            /\ Pair(row) = pair
                            /\ ~row.match_successful
                            /\ row.error_message = Some(ret.message)

\* ---- get_recent_media
\* The elements of the listing that are media items.
MediaElements ==
    {listing.items[i] : i \in {j \in DOMAIN listing.items :
                                  listing.items[j].tag \in {"Video", "Track", "Photo"}}}

\* The epoch seconds written in an addedAt attribute of plain digits.
Decimal(added_at) ==
    IF added_at = Some(<<"9">>) THEN Some(9)
    ELSE IF added_at = Some(<<"1", "0">>) THEN Some(10)
    ELSE IF added_at = Some(<<"1", "1">>) THEN Some(11)
    ELSE None

\* C22: get_recent_media returns every media item whose addedAt is a number
\* of epoch seconds at or after the cutoff, whatever the addedAt of the other
\* items; it returns no item without addedAt, with an addedAt that is not a
\* number, or with one before the cutoff, and no item twice; and what it
\* returns is in descending order of addedAt.
C22_RecentExactAndOrdered ==
    (recent # None /\ listing.status = "ok") =>
        LET cutoff == IF clock \div TicksPerSecond = 86410 THEN 10 ELSE 11
        IN /\ \A item \in MediaElements :
                 (Decimal(item.addedAt) # None /\ Decimal(item.addedAt)[1] >= cutoff)
                     => item.key \in RecentKeys
           /\ \A item \in MediaElements :
                 item.key \in RecentKeys =>
                     /\ item.addedAt \notin
                           {None, Some(<<>>), Some(<<"a">>), Some(<<"1", ".", "5">>)}
                     /\ Decimal(item.addedAt) # None => Decimal(item.addedAt)[1] >= cutoff
           /\ RecentKeys \subseteq {item.key : item \in MediaElements}
           /\ Cardinality(RecentKeys) = Len(recent[1])
           /\ \A i \in DOMAIN recent[1] : \A j \in DOMAIN recent[1] :
                 i < j => recent[1][i].addedAt >= recent[1][j].addedAt

\* The configs a run has loaded, and their ids.
Loaded(s) == {run[s].configs[i] : i \in DOMAIN run[s].configs}

LoadedIds(s) == {c.id : c \in Loaded(s)}

\* Everything run s has done was done for a config it loaded: each fetch,
\* each call of match_with_agent and each row; and the record it has
\* finalised counts the configs it loaded.
OnlyLoaded(s) ==
    /\ Len(run[s].fetched) <= Len(run[s].configs)
    /\ \A pair \in run[s].called : pair[1] \in LoadedIds(s)
    /\ \A row \in RowsOf(s) : row.library_config_id \in LoadedIds(s)
    /\ scan_logs[s].status # "running" =>
           scan_logs[s].total_libraries = Len(run[s].configs)

\* C23: a scan loads exactly the configs that are enabled at that moment,
\* and never changes what it loaded; it fetches, calls match_with_agent and
\* makes rows only for configs it loaded, and the record it finalises has
\* total_libraries equal to the number of configs it loaded.
C23_OnlyEnabledConfigsScanned ==
    [][\A s \in DOMAIN scan_logs' :
          /\ (s \in DOMAIN scan_logs /\ run'[s].configs # run[s].configs) =>
                 /\ At(s, "connect")
                 /\ Loaded(s)' = {c \in library_configs : c.enabled}
                 /\ Len(run'[s].configs) =
                        Cardinality({c \in library_configs : c.enabled})
          /\ (s \notin DOMAIN scan_logs) => run'[s].configs = <<>>
          /\ OnlyLoaded(s)']_vars

\* A scan has completed with rows for the one config it loaded, while the
\* other config is disabled and has neither been loaded by it nor has a row.
C23_DisabledConfigLeftOut ==
    \E s \in DOMAIN scan_logs : \E c \in library_configs :
        /\ scan_logs[s].status = "completed"
        /\ scan_logs[s].total_libraries = 1
        /\ CommittedBy(s) # {}
        /\ Cardinality(library_configs) = NumLibs
        /\ ~c.enabled
        /\ c.id \notin LoadedIds(s)
        /\ \A row \in media_items : row.library_config_id # c.id

\* The zones pytz knows, among the names of the model.
Zones == {UTC, "Europe/Prague", "America/New_York"}

C25_CompletedCountersMatchRows ==
    \A s \in DOMAIN scan_logs :
        scan_logs[s].status = "completed" =>
            /\ scan_logs[s].total_matched =
                   Cardinality({row \in CommittedBy(s) : row.match_successful})
            /\ Cardinality({row \in CommittedBy(s) : ~row.match_successful})
                   <= scan_logs[s].total_errors
            /\ \A pair \in run[s].called :
                   \E row \in CommittedBy(s) : Pair(row) = pair

\* A completed scan has made a row of each kind.
C25_CompletedWithBothOutcomes ==
    \E s \in DOMAIN scan_logs :
        /\ scan_logs[s].status = "completed"
        /\ \E row \in CommittedBy(s) : row.match_successful
        /\ \E row \in CommittedBy(s) : ~row.match_successful

\* C26: a scan that started after another had committed a row with
\* match_successful false never calls match_with_agent for that row's item
\* while the row is in the ledger.
C26_NoRetryOfFailedItems ==
    [][\A s \in DOMAIN scan_logs :
          \A pair \in run'[s].called \ run[s].called :
              \A row \in media_items :
                  (~row.match_successful /\ RanAfter(s, row.id[1])) =>
                      Pair(row) # pair]_vars

\* A later scan has completed after it was returned an item whose row says
\* the call had failed, and has not called match_with_agent for it.
C26_FailedItemSkippedLater ==
    \E s \in DOMAIN scan_logs : \E row \in media_items :
        /\ ~row.match_successful
        /\ RanAfter(s, row.id[1])
        /\ scan_logs[s].status = "completed"
        /\ Pair(row) \in Returned(s)
        /\ Pair(row) \notin run[s].called

====
